---- MODULE Spec2Model ----
(***************************************************************************)
(* Model of src/scrollvars.js (ScrollVars v1.0.0).                         *)
(*                                                                         *)
(* One element of the document matches the selector.  JavaScript Numbers   *)
(* are modelled as exact rationals <<n, d>> (d > 0, lowest terms); the     *)
(* rounding of IEEE-754 doubles is not modelled.                           *)
(***************************************************************************)
EXTENDS Integers, Sequences, FiniteSets, TLC

(***************************************************************************)
(* Bounds of the model.                                                    *)
(***************************************************************************)
MaxTop == 2
MaxHeight == 2
MaxVh == 1
MaxShift == 3
MaxDelta == 1
MaxClosures == 2

(***************************************************************************)
(* Rational arithmetic.                                                    *)
(***************************************************************************)
Abs(n) == IF n < 0 THEN -n ELSE n

RECURSIVE GCD(_, _)
GCD(a, b) == IF b = 0 THEN a ELSE GCD(b, a % b)

Rat(n, d) ==
    LET g == GCD(Abs(n), Abs(d))
        s == IF d < 0 THEN -1 ELSE 1
    IN  <<(s * n) \div g, (s * d) \div g>>

I(n) == <<n, 1>>

RAdd(a, b) == Rat(a[1] * b[2] + b[1] * a[2], a[2] * b[2])
RSub(a, b) == Rat(a[1] * b[2] - b[1] * a[2], a[2] * b[2])
RMul(a, b) == Rat(a[1] * b[1], a[2] * b[2])
RDiv(a, b) == Rat(a[1] * b[2], a[2] * b[1])
RNeg(a) == <<-a[1], a[2]>>
RLt(a, b) == a[1] * b[2] < b[1] * a[2]
RLe(a, b) == a[1] * b[2] <= b[1] * a[2]
RMax(a, b) == IF RLt(a, b) THEN b ELSE a
RMin(a, b) == IF RLt(b, a) THEN b ELSE a

Zero == I(0)
One == I(1)
Half == <<1, 2>>

(***************************************************************************)
(* String(v): the decimal text of a finite Number; distinct numbers have   *)
(* distinct texts, so the text is modelled by a tagged canonical rational. *)
(***************************************************************************)
String(v) == <<"str", v[1], v[2]>>

(***************************************************************************)
(* DEFAULTS (the options the tracked element reads).                       *)
(***************************************************************************)
DEFAULTS ==
    [ clamp          |-> TRUE,
      threshold      |-> <<1, 2000>>,
      initUntilStart |-> TRUE,
      progressOrigin |-> "init",
      smartResize    |-> TRUE,
      resizeMinDelta |-> 1,
      useVisualViewport |-> TRUE ]

\* { ...DEFAULTS, ...userOpts }
MergeOpts(d, u) == [k \in DOMAIN d |-> IF k \in DOMAIN u THEN u[k] ELSE d[k]]

\* the option objects callers pass to init()
UserOpts ==
    { [progressOrigin |-> "init"],
      [threshold |-> <<1, 4>>, initUntilStart |-> FALSE],
      [threshold |-> <<1, 1>>],
      [clamp |-> FALSE, progressOrigin |-> "min"] }

(***************************************************************************)
(* Attribute values: <<>> is an absent attribute (null), <<tok>> a present *)
(* one.  A token is a piece of text: num says whether Number() of it is    *)
(* finite, dec whether it is a plain signed decimal (the form the range    *)
(* pattern of parseSpec accepts), val is its value.                        *)
(***************************************************************************)
Num(q) == [num |-> TRUE, dec |-> TRUE, val |-> q]
Sci(q) == [num |-> TRUE, dec |-> FALSE, val |-> q]
NaNTok == [num |-> FALSE, dec |-> FALSE, val |-> Zero]
\* a decimal of so many digits that Number() of it is Infinity
Huge == [num |-> FALSE, dec |-> TRUE, val |-> Zero]

toNum(v, def) ==
    IF v = <<>> THEN def
    ELSE IF v[1].num THEN v[1].val ELSE def

StartAttrs == { <<>>, <<Num(One)>> }
EndAttrs == { <<>>, <<Num(Half)>> }
OriginAttrs == { <<>>, <<"center">> }

(***************************************************************************)
(* data-sv declarations: the parts left after split(";"), trim and         *)
(* filter, each with the text of its name, range ends and optional @init.  *)
(***************************************************************************)
Names == {"--x", "--y", "--s", "--bad"}
Unset == <<>>

\* the name pattern of parseSpec (line 155), over the names that occur
identifier(name) == name \in Names

Part(name, lo, hi, init) == [name |-> name, lo |-> lo, hi |-> hi, init |-> init]

Decls ==
    { << Part("--x", Num(I(0)), Num(I(2)), <<Num(I(1))>>) >>,
      << Part("--x", Num(I(2)), Num(I(0)), <<>>) >>,
      << Part("--x", Num(I(-1)), Num(I(1)), <<Num(I(3))>>),
         Part("--y", Num(I(2)), Num(I(-2)), <<Num(I(0))>>) >>,
      << Part("--bad", NaNTok, Num(I(5)), <<>>),
         Part("--s", Num(I(0)), Num(I(1)), <<>>),
         Part("--y", Num(I(0)), Num(I(1)), <<NaNTok>>),
         Part("9x", Num(I(0)), Num(I(1)), <<>>),
         Part("--y", Num(I(0)), Huge, <<>>),
         Part("--y", Sci(I(1)), Num(I(2)), <<>>),
         Part("--x", Num(I(0)), Num(I(2)), <<Sci(I(1))>>) >> }

\* variant: the first entry that does not parse ends the loop
RECURSIVE parseSpec_stopAtBad(_)
parseSpec_stopAtBad(raw) ==
    IF raw = <<>> THEN <<>>
    ELSE LET part == Head(raw)
             okName == identifier(part.name)
             okRange == part.lo.dec /\ part.hi.dec
             okFinite == /\ part.lo.num /\ part.hi.num
                         /\ part.init = <<>> \/ part.init[1].num
         IN  IF okName /\ okRange /\ okFinite
             THEN << [ name |-> part.name,
                       min  |-> part.lo.val,
                       max  |-> part.hi.val,
                       init |-> IF part.init # <<>> THEN part.init[1].val
                                ELSE part.lo.val ] >>
                  \o parseSpec_stopAtBad(Tail(raw))
             ELSE <<>>

RECURSIVE parseSpec(_)
parseSpec(raw) ==
    IF raw = <<>> THEN <<>>
    ELSE LET part == Head(raw)
             rest == parseSpec(Tail(raw))
             okName == identifier(part.name)
             okRange == part.lo.dec /\ part.hi.dec
             okFinite == /\ part.lo.num /\ part.hi.num
                         /\ part.init = <<>> \/ part.init[1].num
         IN  IF okName /\ okRange /\ okFinite
             THEN << [ name |-> part.name,
                       min  |-> part.lo.val,
                       max  |-> part.hi.val,
                       init |-> IF part.init # <<>> THEN part.init[1].val
                                ELSE part.lo.val ] >> \o rest
             ELSE rest

(***************************************************************************)
(* computeProgress: g is what the call reads from the page, the element's  *)
(* bounding rect (top, bottom) and the viewport height vh.                 *)
(***************************************************************************)
\* variant: divides by B instead of B - A
computeProgress_divB(g, start, end) ==
    LET startPx == RMul(start, I(g.vh))
        endPx   == RMul(end, I(g.vh))
        A == RSub(I(g.top), startPx)
        B == RSub(I(g.bottom), endPx)
    IN  IF RLt(Zero, A) THEN Zero
        ELSE IF RLe(B, Zero) THEN One
        ELSE RDiv(RNeg(A), B)

\* variant: interpolates against the element's bottom edge only
computeProgress_fromB(g, start, end) ==
    LET startPx == RMul(start, I(g.vh))
        endPx   == RMul(end, I(g.vh))
        A == RSub(I(g.top), startPx)
        B == RSub(I(g.bottom), endPx)
    IN  IF RLt(Zero, A) THEN Zero
        ELSE IF RLe(B, Zero) THEN One
        ELSE RDiv(B, RSub(B, A))

\* variant: tests the end line before the start line
computeProgress_endFirst(g, start, end) ==
    LET startPx == RMul(start, I(g.vh))
        endPx   == RMul(end, I(g.vh))
        A == RSub(I(g.top), startPx)
        B == RSub(I(g.bottom), endPx)
    IN  IF RLe(B, Zero) THEN One
        ELSE IF RLt(Zero, A) THEN Zero
        ELSE RDiv(RNeg(A), RSub(B, A))

\* variant: the end test is B < 0
computeProgressDivision_strictEnd(g, start, end) ==
    LET startPx == RMul(start, I(g.vh))
        endPx   == RMul(end, I(g.vh))
        A == RSub(I(g.top), startPx)
        B == RSub(I(g.bottom), endPx)
    IN  IF RLt(Zero, A) THEN <<>>
        ELSE IF RLt(B, Zero) THEN <<>>
        ELSE << RSub(B, A) >>

\* the divisors computeProgress divides by (line 187): none when it returns
\* on line 183 or 184
computeProgressDivision(g, start, end) ==
    LET startPx == RMul(start, I(g.vh))
        endPx   == RMul(end, I(g.vh))
        A == RSub(I(g.top), startPx)
        B == RSub(I(g.bottom), endPx)
    IN  IF RLt(Zero, A) THEN <<>>
        ELSE IF RLe(B, Zero) THEN <<>>
        ELSE << RSub(B, A) >>

computeProgress(g, start, end) ==
    LET startPx == RMul(start, I(g.vh))
        endPx   == RMul(end, I(g.vh))
        A == RSub(I(g.top), startPx)
        B == RSub(I(g.bottom), endPx)
    IN  IF RLt(Zero, A) THEN Zero
        ELSE IF RLe(B, Zero) THEN One
        ELSE RDiv(RNeg(A), RSub(B, A))

\* variant: origin "init" interpolates from min
mapByOrigin_initFromMin(t, s, origin) ==
    CASE origin = "min" -> RAdd(s.min, RMul(t, RSub(s.max, s.min)))
      [] origin = "center" ->
            LET mid == RDiv(RAdd(s.min, s.max), I(2))
            IN  RAdd(mid, RMul(RSub(t, Half), RSub(s.max, s.min)))
      [] OTHER -> RAdd(s.min, RMul(t, RSub(s.max, s.min)))

mapByOrigin(t, s, origin) ==
    CASE origin = "min" -> RAdd(s.min, RMul(t, RSub(s.max, s.min)))
      [] origin = "center" ->
            LET mid == RDiv(RAdd(s.min, s.max), I(2))
            IN  RAdd(mid, RMul(RSub(t, Half), RSub(s.max, s.min)))
      [] OTHER -> RAdd(s.init, RMul(t, RSub(s.max, s.init)))

clamp01(t) == IF RLt(t, Zero) THEN Zero ELSE IF RLt(One, t) THEN One ELSE t

(***************************************************************************)
(* The page: the attributes of the tracked element, its inline style       *)
(* (custom properties), and the events dispatched on it.                   *)
(***************************************************************************)
VARIABLES
    attrs,      \* attributes of the element: sv, start, end, origin
    style,      \* el.style: custom property name -> text, or Unset
    events,     \* events dispatched on the element by the latest constructor or update sweep
    lastCall,   \* <<>> or <<c>>: arguments and result of the latest computeProgress call
    instances,  \* ScrollVars._instances
    opts,       \* ScrollVars._opts
    bound,      \* ScrollVars._bound
    pc,         \* "idle", or "init" between the two halves of init()
    binding,    \* ScrollVars._rafId, the handler references, _ro, and the closures' ticking
    window,     \* the browser: registered listeners, pending animation frames, observers
    unswept,    \* history: a scroll event arrived and no update sweep has run since
    balance     \* history: sv:enter minus sv:leave dispatched on the current instance

vars == <<attrs, style, events, lastCall, instances, opts, bound, pc,
          binding, window, unswept, balance>>

Geometries ==
    { [top |-> top, bottom |-> top + h, vh |-> v] :
        top \in -MaxTop..MaxTop, h \in 0..MaxHeight, v \in 1..MaxVh }

Event(type, t) == [type |-> type, t |-> t]
Count(seq, type) == Cardinality({ i \in 1..Len(seq) : seq[i].type = type })

(***************************************************************************)
(* Instance.updateClasses(t, initial): the new flags and the events it     *)
(* dispatches, in order.  The class toggles mirror the three flags.        *)
(***************************************************************************)
\* variant: the started flag latches once set
updateClasses_latch(inst, o, t, initial) ==
    LET wasActive  == inst.active
        wasStarted == inst.started
        wasEnded   == inst.ended
        isStarted  == wasStarted \/ RLt(o.threshold, t)
        isEnded    == RLe(RSub(One, o.threshold), t)
        isActive   == RLt(o.threshold, t) /\ RLt(t, RSub(One, o.threshold))
        ev == IF initial THEN <<>>
              ELSE (IF ~wasStarted /\ isStarted THEN <<Event("sv:start", t)>> ELSE <<>>)
                \o (IF ~wasActive /\ isActive THEN <<Event("sv:enter", t)>> ELSE <<>>)
                \o (IF wasActive /\ ~isActive THEN <<Event("sv:leave", t)>> ELSE <<>>)
                \o (IF ~wasEnded /\ isEnded THEN <<Event("sv:end", t)>> ELSE <<>>)
    IN  [ inst   |-> [inst EXCEPT !.active = isActive,
                                  !.started = isStarted,
                                  !.ended = isEnded],
          events |-> ev ]

\* variant: notifies on the level of a flag instead of its edge
updateClasses_level(inst, o, t, initial) ==
    LET isStarted  == RLt(o.threshold, t)
        isEnded    == RLe(RSub(One, o.threshold), t)
        isActive   == RLt(o.threshold, t) /\ RLt(t, RSub(One, o.threshold))
        ev == IF initial THEN <<>>
              ELSE (IF isStarted THEN <<Event("sv:start", t)>> ELSE <<>>)
                \o (IF isActive THEN <<Event("sv:enter", t)>> ELSE <<>>)
                \o (IF inst.active /\ ~isActive THEN <<Event("sv:leave", t)>> ELSE <<>>)
                \o (IF isEnded THEN <<Event("sv:end", t)>> ELSE <<>>)
    IN  [ inst   |-> [inst EXCEPT !.active = isActive,
                                  !.started = isStarted,
                                  !.ended = isEnded],
          events |-> ev ]

\* variant: the "initial" argument is ignored
updateClasses_noInitial(inst, o, t, initial) ==
    LET wasActive  == inst.active
        wasStarted == inst.started
        wasEnded   == inst.ended
        isStarted  == RLt(o.threshold, t)
        isEnded    == RLe(RSub(One, o.threshold), t)
        isActive   == RLt(o.threshold, t) /\ RLt(t, RSub(One, o.threshold))
        ev ==   (IF ~wasStarted /\ isStarted THEN <<Event("sv:start", t)>> ELSE <<>>)
             \o (IF ~wasActive /\ isActive THEN <<Event("sv:enter", t)>> ELSE <<>>)
             \o (IF wasActive /\ ~isActive THEN <<Event("sv:leave", t)>> ELSE <<>>)
             \o (IF ~wasEnded /\ isEnded THEN <<Event("sv:end", t)>> ELSE <<>>)
    IN  [ inst   |-> [inst EXCEPT !.active = isActive,
                                  !.started = isStarted,
                                  !.ended = isEnded],
          events |-> ev ]

\* variant: sv:end is dispatched first
updateClasses_endFirst(inst, o, t, initial) ==
    LET wasActive  == inst.active
        wasStarted == inst.started
        wasEnded   == inst.ended
        isStarted  == RLt(o.threshold, t)
        isEnded    == RLe(RSub(One, o.threshold), t)
        isActive   == RLt(o.threshold, t) /\ RLt(t, RSub(One, o.threshold))
        ev == IF initial THEN <<>>
              ELSE (IF ~wasEnded /\ isEnded THEN <<Event("sv:end", t)>> ELSE <<>>)
                \o (IF ~wasStarted /\ isStarted THEN <<Event("sv:start", t)>> ELSE <<>>)
                \o (IF ~wasActive /\ isActive THEN <<Event("sv:enter", t)>> ELSE <<>>)
                \o (IF wasActive /\ ~isActive THEN <<Event("sv:leave", t)>> ELSE <<>>)
    IN  [ inst   |-> [inst EXCEPT !.active = isActive,
                                  !.started = isStarted,
                                  !.ended = isEnded],
          events |-> ev ]

updateClasses(inst, o, t, initial) ==
    LET wasActive  == inst.active
        wasStarted == inst.started
        wasEnded   == inst.ended
        isStarted  == RLt(o.threshold, t)
        isEnded    == RLe(RSub(One, o.threshold), t)
        isActive   == RLt(o.threshold, t) /\ RLt(t, RSub(One, o.threshold))
        ev == IF initial THEN <<>>
              ELSE (IF ~wasStarted /\ isStarted THEN <<Event("sv:start", t)>> ELSE <<>>)
                \o (IF ~wasActive /\ isActive THEN <<Event("sv:enter", t)>> ELSE <<>>)
                \o (IF wasActive /\ ~isActive THEN <<Event("sv:leave", t)>> ELSE <<>>)
                \o (IF ~wasEnded /\ isEnded THEN <<Event("sv:end", t)>> ELSE <<>>)
    IN  [ inst   |-> [inst EXCEPT !.active = isActive,
                                  !.started = isStarted,
                                  !.ended = isEnded],
          events |-> ev ]

\* style after setProperty(s.name, text) for each spec in order
RECURSIVE setAll(_, _, _)
setAll(st, specs, vals) ==
    IF specs = <<>> THEN st
    ELSE setAll([st EXCEPT ![Head(specs).name] = String(Head(vals))],
                Tail(specs), Tail(vals))

\* variant: init is taken as parsed
clampInit_none(s) == s

\* the constructor's clamp of init (lines 231-232)
clampInit(s) ==
    LET i1 == IF RLt(s.init, s.min) THEN s.min ELSE s.init
        i2 == IF RLt(s.max, i1) THEN s.max ELSE i1
    IN  [s EXCEPT !.init = i2]

(***************************************************************************)
(* new Instance(el, opts)                                                  *)
(***************************************************************************)
Instance(a, o, st) ==
    LET parsed == parseSpec(a.sv)
        specs  == [i \in 1..Len(parsed) |-> clampInit(parsed[i])]
        origin == IF a.origin \in {<<"min">>, <<"center">>, <<"init">>}
                  THEN a.origin[1] ELSE o.progressOrigin
        this   == [ specs   |-> specs,
                    start   |-> toNum(a.start, Zero),
                    end     |-> toNum(a.end, One),
                    origin  |-> origin,
                    t       |-> Zero,
                    active  |-> FALSE,
                    started |-> FALSE,
                    ended   |-> FALSE ]
        applied(s) == s.init
        uc == updateClasses(this, o, Zero, TRUE)
    IN  [ inst   |-> uc.inst,
          style  |-> setAll(st, specs, [i \in 1..Len(specs) |-> applied(specs[i])]),
          events |-> uc.events ]

(***************************************************************************)
(* Instance.update(), reading geometry g from the page                     *)
(***************************************************************************)
update(inst, o, st, g) ==
    LET ret == computeProgress(g, inst.start, inst.end)
        t   == IF o.clamp THEN clamp01(ret) ELSE ret
        isStarted == RLt(o.threshold, t)
        applied(s) ==
            LET v == IF o.initUntilStart /\ ~isStarted
                     THEN s.init
                     ELSE mapByOrigin(t, s, inst.origin)
            IN  RMax(RMin(v, s.max), s.min)
        uc == updateClasses([inst EXCEPT !.t = t], o, t, FALSE)
    IN  [ inst   |-> uc.inst,
          style  |-> setAll(st, inst.specs,
                            [i \in 1..Len(inst.specs) |-> applied(inst.specs[i])]),
          events |-> uc.events,
          call   |-> [ top |-> g.top, bottom |-> g.bottom, vh |-> g.vh,
                       start |-> inst.start, end |-> inst.end, ret |-> ret,
                       div |-> computeProgressDivision(g, inst.start, inst.end) ] ]

(***************************************************************************)
(* The driver.  d = [bound, instances, binding, window] is the state the   *)
(* driver's methods and the handlers of _bind() read and write.            *)
(*                                                                         *)
(* Each _bind() call creates one closure (ticking, onTick, requestTick and *)
(* the handler functions); a closure is named by a number, and a number is *)
(* reused once nothing references its closure any more.  A listener is     *)
(* <<type, closure>>, a pending animation frame [id, c], an observer the   *)
(* closure whose ResizeObserver watches the element.  window.visualViewport*)
(* and ResizeObserver exist.                                               *)
(***************************************************************************)
Closures == 1..MaxClosures

\* values of _rafId that name no pending frame: the frame ran, or was cancelled
StaleRan == -1
StaleCancelled == -2

NoBinding ==
    [ rafId |-> 0, onScroll |-> 0, onResize |-> 0, onVvResize |-> 0,
      onOrient |-> 0, onLoad |-> 0, ro |-> 0, ticking |-> {} ]

EmptyWindow == [ listeners |-> {}, frames |-> {}, observers |-> {} ]

Referenced(b, w) ==
    { c \in Closures :
        \/ c \in {b.onScroll, b.onResize, b.onVvResize, b.onOrient, b.onLoad, b.ro}
        \/ \E l \in w.listeners : l[2] = c
        \/ \E f \in w.frames : f.c = c
        \/ c \in w.observers }

\* closures nothing references are gone, and their ticking with them
collect(d) ==
    [d EXCEPT !.binding.ticking = @ \cap Referenced(d.binding, d.window)]

\* the id requestAnimationFrame returns: one no pending frame has
FreshFrame(w) ==
    CHOOSE n \in 1..(Cardinality(w.frames) + 1) :
        /\ \A f \in w.frames : f.id # n
        /\ \A m \in 1..(n - 1) : \E f \in w.frames : f.id = m

\* variant: requests a frame whether or not one is pending
requestTick_noGuard(c, d) ==
    IF Cardinality(d.window.frames) >= 3 THEN d
    ELSE LET id == FreshFrame(d.window)
         IN  [d EXCEPT !.binding.ticking = @ \cup {c},
                       !.binding.rafId = id,
                       !.window.frames = @ \cup {[id |-> id, c |-> c]}]

\* requestTick of closure c (lines 316-321)
requestTick(c, d) ==
    IF c \in d.binding.ticking THEN d
    ELSE LET id == FreshFrame(d.window)
         IN  [d EXCEPT !.binding.ticking = @ \cup {c},
                       !.binding.rafId = id,
                       !.window.frames = @ \cup {[id |-> id, c |-> c]}]

\* variant: ticking is never reset
onTick_keepTicking(f, d) ==
    [d EXCEPT !.window.frames = @ \ {f},
              !.binding.rafId = IF @ = f.id THEN StaleRan ELSE @]

\* the browser runs pending frame f: onTick of its closure, before _update()
onTick(f, d) ==
    [d EXCEPT !.window.frames = @ \ {f},
              !.binding.ticking = @ \ {f.c},
              !.binding.rafId = IF @ = f.id THEN StaleRan ELSE @]

\* handleResize of closure c (lines 331-341); the new window size is given
\* by how it differs from the last recorded one
handleResize(c, d, o, wChanged, hDelta) ==
    IF ~o.smartResize THEN requestTick(c, d)
    ELSE IF wChanged \/ hDelta >= o.resizeMinDelta THEN requestTick(c, d)
    ELSE d

\* _onVvResize of closure c (lines 350-359)
onVvResize(c, d, o, wChanged, hDelta) ==
    IF wChanged \/ hDelta >= o.resizeMinDelta THEN requestTick(c, d) ELSE d

CanBind(d) == Closures \ Referenced(d.binding, d.window) # {}

\* _bind() (lines 311-377)
bind(d, o) ==
    LET free == Closures \ Referenced(d.binding, d.window)
        c == CHOOSE n \in free : \A m \in free : n <= m
    IN  [d EXCEPT
            !.bound = TRUE,
            !.binding = [@ EXCEPT !.ticking = @ \ {c},
                                  !.onScroll = c,
                                  !.onResize = c,
                                  !.onVvResize = IF o.useVisualViewport THEN c ELSE @,
                                  !.onOrient = c,
                                  !.onLoad = c,
                                  !.ro = c],
            !.window = [@ EXCEPT
                !.listeners = @ \cup {<<"scroll", c>>, <<"resize", c>>,
                                      <<"orientationchange", c>>, <<"load", c>>}
                                \cup (IF o.useVisualViewport
                                      THEN {<<"vvresize", c>>} ELSE {}),
                !.observers = IF d.instances # <<>> THEN @ \cup {c} ELSE @]]

\* variant: init() binds on every call
initBind_always(d, o) == bind(d, o)

\* init(), line 303
initBind(d, o) == IF ~d.bound THEN bind(d, o) ELSE d

\* variant: the pending frame is not cancelled
destroy_noCancel(d) ==
    LET b == d.binding
        w == d.window
        removed == { l \in w.listeners :
                        \/ l = <<"scroll", b.onScroll>>
                        \/ l = <<"resize", b.onResize>>
                        \/ l = <<"vvresize", b.onVvResize>>
                        \/ l = <<"orientationchange", b.onOrient>>
                        \/ l = <<"load", b.onLoad>> }
    IN  collect(
          [ bound     |-> FALSE,
            instances |-> <<>>,
            binding   |-> [ rafId |-> b.rafId,
                            onScroll |-> 0, onResize |-> 0, onVvResize |-> 0,
                            onOrient |-> 0, onLoad |-> 0, ro |-> 0,
                            ticking |-> b.ticking ],
            window    |-> [ listeners |-> w.listeners \ removed,
                            frames    |-> w.frames,
                            observers |-> w.observers \ {b.ro} ] ])

\* variant: the ResizeObserver is not disconnected
destroy_keepObserver(d) ==
    LET b == d.binding
        w == d.window
        cancelled == IF b.rafId # 0
                     THEN { f \in w.frames : f.id = b.rafId } ELSE {}
        removed == { l \in w.listeners :
                        \/ l = <<"scroll", b.onScroll>>
                        \/ l = <<"resize", b.onResize>>
                        \/ l = <<"vvresize", b.onVvResize>>
                        \/ l = <<"orientationchange", b.onOrient>>
                        \/ l = <<"load", b.onLoad>> }
    IN  collect(
          [ bound     |-> FALSE,
            instances |-> <<>>,
            binding   |-> [ rafId |-> IF cancelled # {} THEN StaleCancelled
                                      ELSE b.rafId,
                            onScroll |-> 0, onResize |-> 0, onVvResize |-> 0,
                            onOrient |-> 0, onLoad |-> 0, ro |-> 0,
                            ticking |-> b.ticking ],
            window    |-> [ listeners |-> w.listeners \ removed,
                            frames    |-> w.frames \ cancelled,
                            observers |-> w.observers ] ])

\* destroy() (lines 383-403)
destroy(d) ==
    LET b == d.binding
        w == d.window
        cancelled == IF b.rafId # 0
                     THEN { f \in w.frames : f.id = b.rafId } ELSE {}
        removed == { l \in w.listeners :
                        \/ l = <<"scroll", b.onScroll>>
                        \/ l = <<"resize", b.onResize>>
                        \/ l = <<"vvresize", b.onVvResize>>
                        \/ l = <<"orientationchange", b.onOrient>>
                        \/ l = <<"load", b.onLoad>> }
    IN  collect(
          [ bound     |-> FALSE,
            instances |-> <<>>,
            binding   |-> [ rafId |-> IF cancelled # {} THEN StaleCancelled
                                      ELSE b.rafId,
                            onScroll |-> 0, onResize |-> 0, onVvResize |-> 0,
                            onOrient |-> 0, onLoad |-> 0, ro |-> 0,
                            ticking |-> b.ticking ],
            window    |-> [ listeners |-> w.listeners \ removed,
                            frames    |-> w.frames \ cancelled,
                            observers |-> w.observers \ {b.ro} ] ])

D == [ bound |-> bound, instances |-> instances,
       binding |-> binding, window |-> window ]

(***************************************************************************)
(* ScrollVars                                                              *)
(***************************************************************************)
Init ==
    /\ attrs \in [ sv : Decls, start : StartAttrs, end : EndAttrs,
                   origin : OriginAttrs ]
    /\ style = [n \in Names |-> Unset]
    /\ events = <<>>
    /\ lastCall = <<>>
    /\ instances = <<>>
    /\ opts = DEFAULTS
    /\ bound = FALSE
    /\ pc = "idle"
    /\ binding = NoBinding
    /\ window = EmptyWindow
    /\ unswept = FALSE
    /\ balance = 0

\* ScrollVars._update() over the tracked element, with the page at geometry g
ScrollVarsUpdate(g) ==
    IF instances = <<>>
    THEN /\ events' = <<>>
         /\ unswept' = FALSE
         /\ UNCHANGED <<style, lastCall, instances, balance>>
    ELSE \E r \in {update(instances[1], opts, style, g)} :
             /\ instances' = <<r.inst>>
             /\ style' = r.style
             /\ events' = r.events
             /\ lastCall' = <<r.call>>
             /\ unswept' = FALSE
             /\ balance' = balance + Count(events', "sv:enter")
                                   - Count(events', "sv:leave")

\* init(userOpts), lines 296-298: merge the options, construct the instances
InitConstruct(u) ==
    /\ pc = "idle"
    /\ LET o == MergeOpts(DEFAULTS, u)
           r == Instance(attrs, o, style)
       IN  /\ opts' = o
           /\ instances' = <<r.inst>>
           /\ style' = r.style
           /\ events' = r.events
    /\ pc' = "init"
    /\ balance' = 0
    /\ UNCHANGED <<attrs, lastCall, bound, binding, window, unswept>>

\* init(userOpts), lines 301-304: first update, then bind
InitFinish(g) ==
    /\ pc = "init"
    /\ IF bound THEN TRUE ELSE CanBind(D)
    /\ ScrollVarsUpdate(g)
    /\ \E d \in {initBind([D EXCEPT !.instances = instances'], opts)} :
           /\ bound' = d.bound
           /\ binding' = d.binding
           /\ window' = d.window
    /\ pc' = "idle"
    /\ UNCHANGED <<attrs, opts>>

\* refresh()
Refresh(g) ==
    /\ pc = "idle"
    /\ ScrollVarsUpdate(g)
    /\ UNCHANGED <<attrs, opts, bound, pc, binding, window>>

Next ==
    \/ \E u \in UserOpts : InitConstruct(u)
    \/ \E g \in Geometries : InitFinish(g)
    \/ \E g \in Geometries : Refresh(g)

Spec == Init /\ [][Next]_vars

(***************************************************************************)
(* The driver with the browser's events and animation frames.  The tracked *)
(* element has one declaration and default boundaries, and the page is at  *)
(* one of three positions: before the start line, inside, past the end.    *)
(***************************************************************************)
DriverOpts ==
    { [progressOrigin |-> "init"],
      [smartResize |-> FALSE],
      [useVisualViewport |-> FALSE] }

DriverGeometries ==
    { [top |-> 1, bottom |-> 2, vh |-> 1],
      [top |-> -1, bottom |-> 2, vh |-> 1],
      [top |-> -2, bottom |-> -1, vh |-> 1] }

DriverInit ==
    /\ Init
    /\ attrs = [ sv |-> << Part("--x", Num(I(0)), Num(I(2)), <<Num(I(1))>>) >>,
                 start |-> <<>>, end |-> <<>>, origin |-> <<>> ]

\* a handler that only changes the binding and the window
SetBinding(d) ==
    /\ binding' = d.binding
    /\ window' = d.window
    /\ UNCHANGED <<attrs, style, events, lastCall, instances, opts, bound, pc, balance>>

\* "scroll" on window, listener of closure c (line 325)
ScrollEvent(c) ==
    /\ pc = "idle"
    /\ <<"scroll", c>> \in window.listeners
    /\ SetBinding(requestTick(c, D))
    /\ unswept' = TRUE

\* "resize" on window (line 344)
ResizeEvent(c, wChanged, hDelta) ==
    /\ pc = "idle"
    /\ <<"resize", c>> \in window.listeners
    /\ SetBinding(handleResize(c, D, opts, wChanged, hDelta))
    /\ UNCHANGED unswept

\* "resize" on window.visualViewport (line 360)
VvResizeEvent(c, wChanged, hDelta) ==
    /\ pc = "idle"
    /\ <<"vvresize", c>> \in window.listeners
    /\ SetBinding(onVvResize(c, D, opts, wChanged, hDelta))
    /\ UNCHANGED unswept

\* "orientationchange" on window (lines 364-365)
OrientationEvent(c) ==
    /\ pc = "idle"
    /\ <<"orientationchange", c>> \in window.listeners
    /\ SetBinding(requestTick(c, D))
    /\ UNCHANGED unswept

\* the ResizeObserver of closure c reports the element (line 373)
ElementResize(c) ==
    /\ pc = "idle"
    /\ c \in window.observers
    /\ SetBinding(requestTick(c, D))
    /\ UNCHANGED unswept

\* "load" on window (lines 368-369)
LoadEvent(c, g) ==
    /\ pc = "idle"
    /\ <<"load", c>> \in window.listeners
    /\ ScrollVarsUpdate(g)
    /\ UNCHANGED <<attrs, opts, bound, pc, binding, window>>

\* the browser runs pending animation frame f: onTick (line 315)
AnimationFrame(f, g) ==
    /\ pc = "idle"
    /\ f \in window.frames
    /\ LET d == collect(onTick(f, D))
       IN  /\ binding' = d.binding
           /\ window' = d.window
    /\ ScrollVarsUpdate(g)
    /\ UNCHANGED <<attrs, opts, bound, pc>>

\* destroy()
Destroy ==
    /\ pc = "idle"
    /\ LET d == destroy(D)
       IN  /\ bound' = d.bound
           /\ instances' = d.instances
           /\ binding' = d.binding
           /\ window' = d.window
    /\ balance' = 0
    /\ UNCHANGED <<attrs, style, events, lastCall, opts, pc, unswept>>

Frames == { [id |-> i, c |-> c] : i \in 1..3, c \in Closures }

RunFrame == \E f \in Frames, g \in DriverGeometries : AnimationFrame(f, g)

DriverNext ==
    \/ \E u \in DriverOpts : InitConstruct(u)
    \/ \E g \in DriverGeometries : InitFinish(g)
    \/ \E g \in DriverGeometries : Refresh(g)
    \/ \E c \in Closures : ScrollEvent(c)
    \/ \E c \in Closures, wChanged \in BOOLEAN, hDelta \in 0..MaxDelta :
            ResizeEvent(c, wChanged, hDelta)
    \/ \E c \in Closures, wChanged \in BOOLEAN, hDelta \in 0..MaxDelta :
            VvResizeEvent(c, wChanged, hDelta)
    \/ \E c \in Closures : OrientationEvent(c)
    \/ \E c \in Closures : ElementResize(c)
    \/ \E c \in Closures, g \in DriverGeometries : LoadEvent(c, g)
    \/ RunFrame
    \/ Destroy

DriverSpec == DriverInit /\ [][DriverNext]_vars

\* what running a pending frame does to the window: the steps of DriverNext
\* that satisfy it and change window are those of RunFrame
FrameRuns ==
    /\ pc = "idle"
    /\ \E f \in window.frames : window' = collect(onTick(f, D)).window

\* init() is one synchronous call: once entered it returns (the step of
\* DriverNext that takes pc from "init" to "idle" is InitFinish)
InitReturns == pc = "init" /\ pc' = "idle"

\* animation frames that were requested and not cancelled do run, and a
\* call of init() runs to completion
FairDriverSpec == DriverSpec /\ WF_window(FrameRuns) /\ WF_pc(InitReturns)

(***************************************************************************)
(* Vocabulary of the properties.                                           *)
(***************************************************************************)
Tracked == instances # <<>>
Updated == Tracked /\ pc = "idle"
Calls == { lastCall[i] : i \in 1..Len(lastCall) }
StartPx(c) == RMul(c.start, I(c.vh))
EndPx(c) == RMul(c.end, I(c.vh))
Ordered(c) == c.top <= c.bottom /\ RLe(c.start, c.end)
Shifted(c, d) == [top |-> c.top - d, bottom |-> c.bottom - d, vh |-> c.vh]
NumberOf(text) == <<text[2], text[3]>>
Within(v, s) ==
    IF RLe(s.min, s.max) THEN RLe(s.min, v) /\ RLe(v, s.max)
    ELSE RLe(s.max, v) /\ RLe(v, s.min)
SpecsOf(seq) == { seq[i] : i \in 1..Len(seq) }
Applied(s) == style[s.name]

\* C1: for elementTop <= elementBottom and start <= end, the value returned
\* by computeProgress lies in [0, 1].
C1_ProgressInUnitInterval ==
    \A c \in Calls : Ordered(c) => RLe(Zero, c.ret) /\ RLe(c.ret, One)

C1_Witness ==
    \E c \in Calls : Ordered(c) /\ RLt(Zero, c.ret) /\ RLt(c.ret, One)

\* C2: with start, end, viewport height and element height fixed, moving the
\* element up by d >= 0 never lowers the progress computeProgress returns.
C2_MonotoneUpward ==
    \A c \in Calls : Ordered(c) =>
        \A d \in 0..MaxShift :
            RLe(c.ret, computeProgress(Shifted(c, d), c.start, c.end))

C2_Witness ==
    \E c \in Calls : /\ Ordered(c)
                     /\ RLt(Zero, c.ret) /\ RLt(c.ret, One)
                     /\ \E d \in 1..MaxShift :
                            RLt(c.ret, computeProgress(Shifted(c, d), c.start, c.end))

\* C3 as stated: computeProgress returns 0 whenever elementTop > start*vh and
\* returns 1 whenever elementBottom <= end*vh, also when both hold.
C3_Original ==
    \A c \in Calls : /\ RLt(StartPx(c), I(c.top)) => c.ret = Zero
                     /\ RLe(I(c.bottom), EndPx(c)) => c.ret = One

\* C3 amended: computeProgress returns 0 whenever elementTop > start*vh, and
\* returns 1 whenever elementBottom <= end*vh and elementTop <= start*vh.
C3_StartLineFirst ==
    \A c \in Calls :
        /\ RLt(StartPx(c), I(c.top)) => c.ret = Zero
        /\ (RLe(I(c.bottom), EndPx(c)) /\ RLe(I(c.top), StartPx(c))) => c.ret = One

C3_Witness ==
    \E c \in Calls : /\ RLt(StartPx(c), I(c.top))
                     /\ RLe(I(c.bottom), EndPx(c))
                     /\ c.ret = Zero

\* C4 as stated: with initUntilStart, after an update that leaves the element
\* not started, the applied value of every spec is the text of that spec's init.
C4_Original ==
    (Updated /\ opts.initUntilStart /\ ~instances[1].started) =>
        \A s \in SpecsOf(instances[1].specs) : Applied(s) = String(s.init)

\* C5: after construction and after every update, the applied value of each
\* spec lies between the spec's min and max, in whichever order they are.
C5_WithinBounds ==
    Tracked =>
        \A s \in SpecsOf(instances[1].specs) : Within(NumberOf(Applied(s)), s)

C5_Witness ==
    /\ Updated
    /\ instances[1].started
    /\ \E s \in SpecsOf(instances[1].specs) :
           RLt(s.max, s.min) /\ Within(NumberOf(Applied(s)), s)
    /\ \E s \in SpecsOf(parseSpec(attrs.sv)) : ~Within(s.init, s)

\* C6 as stated: for a started element with origin "min", a spec with
\* min > max is applied as min + t*(max - min).
C6_Original ==
    (Updated /\ instances[1].started /\ instances[1].origin = "min") =>
        \A s \in SpecsOf(instances[1].specs) :
            RLt(s.max, s.min) =>
                Applied(s) = String(RAdd(s.min, RMul(instances[1].t, RSub(s.max, s.min))))

C8_FlagsAreLevels ==
    Tracked =>
        LET i == instances[1] IN
            /\ i.started = RLt(opts.threshold, i.t)
            /\ i.ended = RLe(RSub(One, opts.threshold), i.t)
            /\ i.active = (i.started /\ ~i.ended)

C8_Witness ==
    /\ Updated
    /\ opts.threshold = <<1, 4>>
    /\ instances[1].active
    /\ RLt(instances[1].t, Half)

\* C9: in every update, each of start/enter/leave/end is dispatched once if
\* its flag made the corresponding change in that update and not at all
\* otherwise; nothing else is dispatched.
IsUpdateStep == Tracked /\ pc' = "idle"

Edge(before, after) == IF ~before /\ after THEN 1 ELSE 0

C9_EdgeTriggered ==
    [][ IsUpdateStep =>
            LET was == instances[1]
                now == instances'[1]
            IN  /\ Count(events', "sv:start") = Edge(was.started, now.started)
                /\ Count(events', "sv:enter") = Edge(was.active, now.active)
                /\ Count(events', "sv:leave") = Edge(now.active, was.active)
                /\ Count(events', "sv:end") = Edge(was.ended, now.ended)
                /\ Len(events') = Edge(was.started, now.started)
                                + Edge(was.active, now.active)
                                + Edge(now.active, was.active)
                                + Edge(was.ended, now.ended) ]_vars

C9_Witness ==
    /\ Updated
    /\ Count(events, "sv:leave") = 1
    /\ Count(events, "sv:end") = 0
    /\ ~instances[1].started

\* C10: the constructor dispatches nothing and leaves the flags at their
\* values for t = 0, wherever the element is on the page.
C10_ConstructSilent ==
    pc = "init" =>
        LET i == instances[1] IN
            /\ events = <<>>
            /\ i.t = Zero
            /\ i.started = RLt(opts.threshold, Zero)
            /\ i.ended = RLe(RSub(One, opts.threshold), Zero)
            /\ i.active = (i.started /\ ~i.ended)

C10_Witness ==
    /\ pc = "init"
    /\ events = <<>>
    /\ \E c \in Calls : c.ret = One

(***************************************************************************)
(* Vocabulary of the driver claims.                                        *)
(***************************************************************************)
Destroyed == ~bound /\ pc = "idle"
WindowEvents == {"scroll", "resize", "orientationchange", "load"}
Registered(type) == { l \in window.listeners : l[1] = type }
Types(seq) == [ i \in 1..Len(seq) |-> seq[i].type ]

(***************************************************************************)
(* C11: after destroy() no update runs: a destroyed driver tracks no       *)
(* instance and has no listener, observer or animation frame left in the   *)
(* window, and until the next init() no step calls computeProgress or      *)
(* writes a property.                                                      *)
(***************************************************************************)
C11_NoUpdateAfterDestroy ==
    /\ [](Destroyed => /\ instances = <<>>
                       /\ window.listeners = {}
                       /\ window.observers = {}
                       /\ window.frames = {})
    /\ [][ (Destroyed /\ pc' = "idle")
              => /\ UNCHANGED <<lastCall, style, instances>>
                 /\ events' \in {events, <<>>} ]_vars

\* destroyed while a frame was pending, after an update had run
C11_Witness ==
    /\ Destroyed
    /\ binding.rafId = StaleCancelled
    /\ lastCall # <<>>

(***************************************************************************)
(* C12: destroy() is idempotent: from any state, one destroy() leaves no   *)
(* instance, no listener, no observer, no pending frame and an unbound     *)
(* driver, and a second destroy() changes nothing.                         *)
(***************************************************************************)
C12_DestroyIdempotent ==
    pc = "idle" =>
        LET d1 == destroy(D)
        IN  /\ destroy(d1) = d1
            /\ d1.instances = <<>>
            /\ ~d1.bound
            /\ d1.window.listeners = {}
            /\ d1.window.observers = {}
            /\ d1.window.frames = {}

\* a destroyed driver whose last frame had run, so that _rafId is stale
C12_Witness ==
    /\ Destroyed
    /\ binding.rafId = StaleRan
    /\ destroy(D) = D

(***************************************************************************)
(* C13: parseSpec returns exactly the entries that match the grammar and   *)
(* have finite min, max and init, in their order, with init defaulting to  *)
(* min; entries that do not are dropped without affecting the others, and  *)
(* the instance carries those specs.                                       *)
(***************************************************************************)
WellFormed(part) ==
    /\ part.name \in Names
    /\ part.lo.dec /\ part.hi.dec
    /\ part.lo.num /\ part.hi.num
    /\ part.init = <<>> \/ part.init[1].num

Entry(part) ==
    [ name |-> part.name, min |-> part.lo.val, max |-> part.hi.val,
      init |-> IF part.init = <<>> THEN part.lo.val ELSE part.init[1].val ]

C13_PartialSuccess ==
    LET good == SelectSeq(attrs.sv, WellFormed)
    IN  /\ parseSpec(attrs.sv) = [ i \in 1..Len(good) |-> Entry(good[i]) ]
        /\ Tracked =>
              /\ Len(instances[1].specs) = Len(good)
              /\ \A i \in 1..Len(good) :
                    /\ instances[1].specs[i].name = good[i].name
                    /\ instances[1].specs[i].min = good[i].lo.val
                    /\ instances[1].specs[i].max = good[i].hi.val

\* a declaration with malformed entries before, between and after valid ones
C13_Witness ==
    /\ Tracked
    /\ Len(instances[1].specs) = 2
    /\ Len(attrs.sv) > 2
    /\ ~WellFormed(attrs.sv[1])
    /\ \E i \in 1..Len(attrs.sv) : \E j \in 1..Len(attrs.sv) :
          /\ i < j
          /\ WellFormed(attrs.sv[i]) /\ ~WellFormed(attrs.sv[j])

(***************************************************************************)
(* C14: within one update the notifications are dispatched in the order    *)
(* start, enter or leave, end, each carrying the progress of that update;  *)
(* an update that jumps from before the start to past the end dispatches   *)
(* both start and end.                                                     *)
(***************************************************************************)
C14_NotificationOrder ==
    [][ IsUpdateStep =>
            LET was == instances[1]
                now == instances'[1]
            IN  /\ Types(events') =
                         (IF ~was.started /\ now.started
                          THEN <<"sv:start">> ELSE <<>>)
                      \o (IF ~was.active /\ now.active
                          THEN <<"sv:enter">> ELSE <<>>)
                      \o (IF was.active /\ ~now.active
                          THEN <<"sv:leave">> ELSE <<>>)
                      \o (IF ~was.ended /\ now.ended
                          THEN <<"sv:end">> ELSE <<>>)
                /\ \A i \in 1..Len(events') : events'[i].t = now.t ]_vars

\* one update took the element from before the start to the end
C14_Witness ==
    /\ Updated
    /\ Types(events) = <<"sv:start", "sv:end">>
    /\ instances[1].t = One

(***************************************************************************)
(* C15: with initUntilStart, an update that takes a started element back   *)
(* to not started applies every property's init value again.               *)
(***************************************************************************)
C15_Original ==
    [][ ( /\ IsUpdateStep
          /\ opts.initUntilStart
          /\ instances[1].started
          /\ ~instances'[1].started )
            => \A s \in SpecsOf(instances'[1].specs) :
                  style'[s.name] = String(s.init) ]_vars

(***************************************************************************)
(* C16: computeProgress never divides by zero: whenever it divides, the    *)
(* divisor B - A is positive; with A = B = 0 it returns 1 without          *)
(* dividing.                                                               *)
(***************************************************************************)
C16_NoDivisionByZero ==
    \A c \in Calls :
        LET A == RSub(I(c.top), StartPx(c))
            B == RSub(I(c.bottom), EndPx(c))
        IN  /\ \A i \in 1..Len(c.div) : RLt(Zero, c.div[i])
            /\ (A = Zero /\ B = Zero) => (c.ret = One /\ c.div = <<>>)

\* the degenerate call: a zero-height element exactly on both lines
C16_Witness ==
    \E c \in Calls :
        /\ RSub(I(c.top), StartPx(c)) = Zero
        /\ RSub(I(c.bottom), EndPx(c)) = Zero
        /\ c.ret = One

(***************************************************************************)
(* C17: at most one animation frame is pending at any time, and no frame   *)
(* is requested while one is pending.                                      *)
(***************************************************************************)
C17_TickCoalescing ==
    /\ [](Cardinality(window.frames) <= 1)
    /\ [][ window.frames # {} => window.frames' \subseteq window.frames ]_vars

\* a frame is pending for the bound driver
C17_Witness ==
    /\ bound
    /\ Cardinality(window.frames) = 1
    /\ \E f \in window.frames : f.id = binding.rafId /\ f.c \in binding.ticking

(***************************************************************************)
(* C18: no scroll is lost: if frames eventually run, every scroll event    *)
(* is followed by a sweep over the instances, unless the driver is         *)
(* destroyed first.                                                        *)
(***************************************************************************)
C18_NoScrollLost == unswept ~> (~unswept \/ ~bound)

\* a scroll has arrived and its frame has not run yet
C18_Witness ==
    /\ unswept
    /\ bound
    /\ window.frames # {}

(***************************************************************************)
(* C19: sv:enter and sv:leave alternate, starting with sv:enter: the       *)
(* number of enters minus the number of leaves of an instance is 1 while   *)
(* it is active and 0 while it is not, and no update dispatches both.      *)
(***************************************************************************)
C19_EnterLeaveAlternate ==
    /\ Tracked => balance = IF instances[1].active THEN 1 ELSE 0
    /\ ~(Count(events, "sv:enter") > 0 /\ Count(events, "sv:leave") > 0)

\* the element has just left the active range
C19_Witness ==
    /\ Updated
    /\ Count(events, "sv:leave") = 1
    /\ ~instances[1].active
    /\ balance = 0

(***************************************************************************)
(* C20: each window listener is registered exactly once while the driver   *)
(* is bound and not at all while it is not, however often init() is        *)
(* called.                                                                 *)
(***************************************************************************)
C20_ListenersOnce ==
    \A type \in WindowEvents :
        Cardinality(Registered(type)) = IF bound THEN 1 ELSE 0

\* init() called again on a driver that was destroyed and bound anew
C20_Witness ==
    /\ bound
    /\ pc = "init"
    /\ binding.rafId = StaleCancelled

====
